---- MODULE Spec2Model ----
(***************************************************************************)
(* docling-jobkit: the orchestrators (LocalOrchestrator, RQOrchestrator    *)
(* and the RQ worker), the chunker cache of DocumentChunkerManager and the *)
(* S3 reconciliation helpers, as state machines.                           *)
(***************************************************************************)
EXTENDS Integers, Sequences, FiniteSets, TLC

\* ------------------------------------------------------------------ bounds
\* number of task ids uuid4 can hand out (= number of enqueue calls)
MaxTasks == 2
\* number of times the external queue re-queues a failed job
MaxRequeue == 1
\* number of threads calling _get_chunker
NumThreads == 2
\* number of _get_chunker calls made in all
MaxChunkerCalls == 3
\* largest configured DocumentChunkerConfig.cache_size
MaxCacheSize == 2
\* largest number of keys in the source listing
MaxKeys == 3
\* largest batch size
MaxBatchSize == 3
\* number of enqueue calls in a run that keeps the worker pool busy
MaxPoolTasks == 3
\* number of job ids Redis holds when the orchestrator polls it
MaxPollJobs == 1
\* most sources of one task
MaxSources == 3
\* most conversion results of one process_chunk_results call
MaxResults == 3

\* LocalOrchestratorConfig.num_workers / RQOrchestratorConfig.num_workers
num_workers == 2

TaskIds == 1..(IF MaxPoolTasks > MaxTasks THEN MaxPoolTasks ELSE MaxTasks)
Workers == 1..num_workers
\* worker loops asyncio could be asked to run: one more than process_queue
\* creates
Loops == 1..(num_workers + 1)
Callers == 1..2
Backends == {"local", "rq"}

PENDING == "PENDING"
STARTED == "STARTED"
SUCCESS == "SUCCESS"
FAILURE == "FAILURE"
Terminal == {SUCCESS, FAILURE}

\* rq.job.JobStatus
JobStatus ==
  {"queued", "finished", "failed", "started", "deferred", "scheduled",
   "stopped", "canceled"}

VARIABLES
  backend,      \* which orchestrator class this instance is
  observing,    \* which observation histories are recorded: "off", "status", "position"
  max_enqueues, \* number of enqueue calls the callers make in this run
  worker_loops, \* LocalOrchestrator.process_queue: worker loops created so far
  pos_ret,      \* observation: the last get_queue_position call and its outcome
  tasks,        \* BaseOrchestrator.tasks : task_id -> Task (status, results)
  task_queue,   \* asyncio.Queue (local) / rq Queue "conversion_queue" (rq)
  queue_list,   \* LocalOrchestrator.queue_list
  jobs,         \* Redis: job_id -> rq Job (status, return value)
  store,        \* Redis: result keys holding a packed result blob
  requeues,     \* number of re-queues done by the external queue
  caller,       \* position of each concurrent enqueue caller
  worker,       \* position of each worker loop / worker process
  issued,       \* history: ids returned by uuid.uuid4(), in order
  putLog,       \* history: ids submitted to task_queue, in order
  getLog,       \* history (local): ids workers took from task_queue, in order
  returned,     \* history: ids whose enqueue call has returned
  preds,        \* history (local): id -> ids whose enqueue had returned when it began
  seenStarted,  \* observation: ids whose registry status has been STARTED
  reported      \* observation: ids task_status has reported as SUCCESS or FAILURE

VARIABLES
  api_only,         \* RQOrchestrator.api_only
  redis_up,         \* whether Redis answers; when it does not, ping fails and
                    \* any call get_queue_position makes to it may fail
  workers_attached, \* Worker.count(connection): live rq workers
  conn_ret          \* observation: how the last check_connection call ended

VARIABLES
  chunking_deps,  \* whether docling-core's chunking dependencies import
  cache_size,     \* DocumentChunkerConfig.cache_size
  lru,            \* lru_cache of _get_chunker_from_cache: <<key, engine>>, oldest first
  cache_lock,     \* DocumentChunkerManager._cache_lock: the holding thread, 0 if free
  thr,            \* position of each thread inside _get_chunker
  ctor_calls,     \* history: cache key -> number of HybridChunker constructions
  calls_made,     \* history: number of _get_chunker calls begun
  dropped,        \* history: cache keys removed by eviction or cache_clear
  attempts,       \* history: cache key -> number of runs of the cached body
  cleared,        \* history: clear_cache has returned and no lookup has run since
  requests        \* history: what each process_chunk_results call got from _get_chunker

VARIABLES
  rc_pc,               \* position in the reconciliation run
  source_objects_list, \* keys listed under the source prefix
  target_listing,      \* keys listed under the target's converted prefix
  batch_size,          \* the batch size K
  filtered_source_keys,\* result of check_target_has_source_converted
  batch_keys,          \* result of generate_batch_keys
  target_short_key_list, \* result of strip_prefix_postfix on the target keys
  batch_indices,       \* the indices compute_batches returns, one per batch
  url_errors,          \* the keys for which generate_presigned_url raises ClientError
  presign_filtered_source_keys \* compute_batches: one Optional[str] per pending key

VARIABLES
  cv_frame,   \* the frame of a DoclingConvert.convert_documents call: its locals
  pcr_frame,  \* the frame of a process_chunk_results call: its locals
  tk_frame    \* the frame of a conversion_task call: its locals

\* convert_documents
cv_pc == cv_frame.pc                     \* position in the call
allowed_formats == cv_frame.allowed_formats \* DoclingConvert.allowed_formats
json_wanted == cv_frame.json_wanted      \* to_formats is None or holds "json"
object_keys == cv_frame.object_keys      \* the keys the call is given
cv_idx == cv_frame.idx                   \* number of keys the loop has gone through
conv_res == cv_frame.conv_res            \* {} while unbound, else {its value}
yielded == cv_frame.yielded              \* what the generator has yielded, in order
cv_log == cv_frame.log                   \* history: what each iteration did

\* process_chunk_results
pcr_pc == pcr_frame.pc                   \* position in the call
pcr_target == pcr_frame.target           \* the kind of the task's target
pcr_options == pcr_frame.options         \* chunking_options or ChunkingOptions()
conv_results == pcr_frame.conv_results   \* the conversion results the call is given
pcr_idx == pcr_frame.idx                 \* number of results the loop has gone through
chunks == pcr_frame.chunks               \* the input positions whose chunks were added
num_succeeded == pcr_frame.num_succeeded
num_failed == pcr_frame.num_failed
convert_details == pcr_frame.convert_details \* one entry per loop iteration
chunk_excs == pcr_frame.chunk_excs       \* history: positions whose chunk_document raised
pcr_result == pcr_frame.result           \* {} until the call returns, then {its result}

\* conversion_task
tk_pc == tk_frame.pc                     \* position in the call
task_sources == tk_frame.sources         \* task.sources
tk_idx == tk_frame.idx                   \* number of sources the loop has gone through
convert_sources == tk_frame.convert_sources \* the inputs handed to convert_documents
headers == tk_frame.headers              \* the headers handed over ({} is None)

jobVars == <<cv_frame, pcr_frame, tk_frame>>

chunkVars ==
  <<chunking_deps, cache_size, lru, cache_lock, thr, ctor_calls, calls_made,
    dropped, attempts, cleared, requests>>

reconVars ==
  <<rc_pc, source_objects_list, target_listing, batch_size,
    filtered_source_keys, batch_keys, target_short_key_list, batch_indices,
    url_errors, presign_filtered_source_keys>>

redisVars == <<api_only, redis_up, workers_attached, conn_ret>>

orchVars ==
  <<redisVars, backend, observing, max_enqueues, worker_loops, pos_ret, tasks, task_queue, queue_list, jobs, store, requeues,
    caller, worker, issued, putLog, getLog, returned, preds, seenStarted,
    reported>>

vars == <<orchVars, chunkVars, reconVars, jobVars>>

\* ----------------------------------------------------------------- helpers
Range(s) == {s[i] : i \in 1..Len(s)}

RECURSIVE RemoveFirst(_, _)
\* list.remove(x): drops the first occurrence of x
RemoveFirst(s, x) ==
  IF s = <<>> THEN <<>>
  ELSE IF Head(s) = x THEN Tail(s)
  ELSE <<Head(s)>> \o RemoveFirst(Tail(s), x)

Occurrences(s, x) == Cardinality({i \in 1..Len(s) : s[i] = x})

IndexOf(s, x) == CHOOSE i \in 1..Len(s) : s[i] = x /\ \A j \in 1..(i - 1) : s[j] # x

\* Task(task_id=..., sources=..., options=..., target=...): a new task is PENDING
\* and has no result
NewTask == [task_status |-> PENDING, results |-> {}]

SetStatus(t, st) ==
  /\ tasks' = [tasks EXCEPT ![t].task_status = st]
  /\ seenStarted' = IF observing = "status" /\ st = STARTED THEN seenStarted \cup {t}
                     ELSE seenStarted

\* f"{orchestrator_config.results_prefix}:{task_id}"
result_key(t) == <<"results_prefix", t>>

\* what setex(result_key, results_ttl, packed) leaves in Redis: the key and its
\* expiry (the packed blob is a function of the task)
results_ttl == "results_ttl"
NoExpiry == "none"
SetexMutant(t) == <<result_key(t), NoExpiry>>
StoreEntry(t) == <<result_key(t), results_ttl>>

\* ------------------------------------------------------------------- uuid
\* str(uuid.uuid4()): a random 122-bit id, modelled as an id never issued before;
\* ids are opaque, so the least unused one stands for any of them
uuid4 == {t \in TaskIds \ Range(issued) : \A u \in TaskIds \ Range(issued) : t <= u}

\* ------------------------------------------------------------------ queue
\* asyncio.Queue.put / rq Queue.enqueue: at the tail
QueuePutMutant(q, id) == <<id>> \o q
QueuePut(q, id) == Append(q, id)

\* Idle callers (idle workers) are interchangeable: the first idle one stands
\* for whichever of them makes the next call (is woken next)
FirstIdle(proc, p) ==
  /\ proc[p].pc = "idle"
  /\ \A q \in DOMAIN proc : proc[q].pc = "idle" => ~(q < p)

\* outcome of a get_queue_position call: the Optional[int] returned ({} is
\* None) or the exception raised
PosReturn(v) == [kind |-> "return", value |-> v, exc |-> ""]
PosRaise(e) == [kind |-> "raise", value |-> {}, exc |-> e]
NoCall == [task_id |-> 0, fault |-> "none", out |-> [kind |-> "none", value |-> {}, exc |-> ""]]

\* a Redis that answers, with the workers process_queue starts attached
RedisIdle ==
  /\ api_only = FALSE
  /\ redis_up = TRUE
  /\ workers_attached = num_workers
  /\ conn_ret = "none"

\* a run in which none of the three calls is made: no frame
JobIdle == cv_frame = <<>> /\ pcr_frame = <<>> /\ tk_frame = <<>>

\* ---------------------------------------------------------- Init
OrchInit ==
  /\ backend \in Backends
  /\ tasks = <<>>
  /\ task_queue = <<>>
  /\ queue_list = <<>>
  /\ jobs = <<>>
  /\ store = {}
  /\ requeues = 0
  /\ caller = [c \in Callers |-> [pc |-> "idle", task_id |-> 0]]
  /\ worker = [w \in Loops |-> [pc |-> "idle", task_id |-> 0]]
  /\ worker_loops = 0
  /\ pos_ret = NoCall
  /\ issued = <<>>
  /\ putLog = <<>>
  /\ getLog = <<>>
  /\ returned = {}
  /\ preds = <<>>
  /\ seenStarted = {}
  /\ reported = {}

\* an enqueue that queues a task it never registered
LocalEnqueueInitUntracked(c) ==
  /\ backend = "local"
  /\ FirstIdle(caller, c)
  /\ Len(issued) < max_enqueues
  /\ \E id \in uuid4 :
       /\ issued' = Append(issued, id)
       /\ preds' = (id :> returned) @@ preds
       /\ caller' = [caller EXCEPT ![c] = [pc |-> "tracked", task_id |-> id]]
  /\ UNCHANGED <<jobVars, chunkVars, reconVars, redisVars, backend, observing, max_enqueues, worker_loops, pos_ret, tasks, task_queue, queue_list, jobs, store, requeues, worker, putLog, getLog, returned, seenStarted,
                 reported>>

\* the orchestrator of a run that enqueues nothing
OrchIdle ==
  /\ OrchInit /\ RedisIdle /\ backend = "local" /\ observing = "off"
  /\ max_enqueues = 0

\* ------------------------------------------------- LocalOrchestrator.enqueue
\* lines 41-43: uuid4, Task(...), await init_task_tracking(task)
LocalEnqueueInit(c) ==
  /\ backend = "local"
  /\ FirstIdle(caller, c)
  /\ Len(issued) < max_enqueues
  /\ \E id \in uuid4 :
       /\ issued' = Append(issued, id)
       /\ preds' = (id :> returned) @@ preds
       /\ tasks' = (id :> NewTask) @@ tasks
       /\ caller' = [caller EXCEPT ![c] = [pc |-> "tracked", task_id |-> id]]
  /\ UNCHANGED <<jobVars, chunkVars, reconVars, redisVars, backend, observing, max_enqueues, worker_loops, pos_ret, task_queue, queue_list, jobs, store, requeues, worker, putLog, getLog, returned, seenStarted,
                 reported>>

\* lines 45-46: queue_list.append(task_id); await task_queue.put(task_id)
LocalEnqueueSubmitMutant(c) ==
  /\ backend = "local"
  /\ caller[c].pc = "tracked"
  /\ queue_list' = Append(queue_list, caller[c].task_id)
  /\ caller' = [caller EXCEPT ![c].pc = "submitted"]
  /\ UNCHANGED <<jobVars, chunkVars, reconVars, redisVars, backend, observing, max_enqueues, worker_loops, pos_ret, tasks, task_queue, putLog, jobs, store, requeues, worker, issued, getLog, returned, preds,
                 seenStarted, reported>>

LocalEnqueueSubmitFront(c) ==
  /\ backend = "local"
  /\ caller[c].pc = "tracked"
  /\ queue_list' = <<caller[c].task_id>> \o queue_list
  /\ task_queue' = QueuePut(task_queue, caller[c].task_id)
  /\ putLog' = Append(putLog, caller[c].task_id)
  /\ caller' = [caller EXCEPT ![c].pc = "submitted"]
  /\ UNCHANGED <<jobVars, chunkVars, reconVars, redisVars, backend, observing, max_enqueues, worker_loops, pos_ret, tasks, jobs, store, requeues, worker,
                 issued, getLog, returned, preds, seenStarted, reported>>

LocalEnqueueSubmit(c) ==
  /\ backend = "local"
  /\ caller[c].pc = "tracked"
  /\ queue_list' = Append(queue_list, caller[c].task_id)
  /\ task_queue' = QueuePut(task_queue, caller[c].task_id)
  /\ putLog' = Append(putLog, caller[c].task_id)
  /\ caller' = [caller EXCEPT ![c].pc = "submitted"]
  /\ UNCHANGED <<jobVars, chunkVars, reconVars, redisVars, backend, observing, max_enqueues, worker_loops, pos_ret, tasks, jobs, store, requeues, worker,
                 issued, getLog, returned, preds, seenStarted, reported>>

\* line 47: return task
LocalEnqueueReturn(c) ==
  /\ backend = "local"
  /\ caller[c].pc = "submitted"
  /\ returned' = returned \cup {caller[c].task_id}
  /\ caller' = [caller EXCEPT ![c] = [pc |-> "idle", task_id |-> 0]]
  /\ UNCHANGED <<jobVars, chunkVars, reconVars, redisVars, backend, observing, max_enqueues, worker_loops, pos_ret, tasks, task_queue, queue_list, jobs, store, requeues, worker, issued, putLog, getLog, preds, seenStarted,
                 reported>>

\* --------------------------------------------------- RQOrchestrator.enqueue
\* lines 77-79: uuid4, Task(...), self.tasks.update({task.task_id: task})
RQEnqueueInit(c) ==
  /\ backend = "rq"
  /\ FirstIdle(caller, c)
  /\ Len(issued) < max_enqueues
  /\ \E id \in uuid4 :
       /\ issued' = Append(issued, id)
       /\ tasks' = (id :> NewTask) @@ tasks
       /\ caller' = [caller EXCEPT ![c] = [pc |-> "tracked", task_id |-> id]]
  /\ UNCHANGED <<jobVars, chunkVars, reconVars, redisVars, backend, observing, max_enqueues, worker_loops, pos_ret, task_queue, queue_list, jobs, store, requeues, worker, putLog, getLog, returned, preds, seenStarted,
                 reported>>

\* lines 80-86: self.task_queue.enqueue(conversion_task, ..., job_id=task_id)
RQEnqueueSubmit(c) ==
  /\ backend = "rq"
  /\ caller[c].pc = "tracked"
  /\ jobs' = (caller[c].task_id :> [status |-> "queued", return_value |-> {}])
               @@ jobs
  /\ task_queue' = QueuePut(task_queue, caller[c].task_id)
  /\ putLog' = Append(putLog, caller[c].task_id)
  /\ caller' = [caller EXCEPT ![c].pc = "submitted"]
  /\ UNCHANGED <<jobVars, chunkVars, reconVars, redisVars, backend, observing, max_enqueues, worker_loops, pos_ret, tasks, queue_list, store, requeues, worker,
                 issued, getLog, returned, preds, seenStarted, reported>>

\* lines 81-86 when Redis does not take the job: Queue.enqueue raises, enqueue
\* has no try around it (71-89), so the call ends with the exception and
\* returns no task; line 79 has already run
RQEnqueueRaise(c) ==
  /\ backend = "rq"
  /\ caller[c].pc = "tracked"
  /\ ~redis_up
  /\ caller' = [caller EXCEPT ![c] = [pc |-> "idle", task_id |-> 0]]
  /\ UNCHANGED <<jobVars, chunkVars, reconVars, redisVars, backend, observing, max_enqueues, worker_loops, pos_ret, tasks, task_queue, queue_list, jobs, store, requeues, worker,
                 issued, putLog, getLog, returned, preds, seenStarted, reported>>

\* lines 87-89: await self.init_task_tracking(task); return task
\* (init_task_tracking stores the same Task object under the same id again)
RQEnqueueReturn(c) ==
  /\ backend = "rq"
  /\ caller[c].pc = "submitted"
  /\ returned' = returned \cup {caller[c].task_id}
  /\ caller' = [caller EXCEPT ![c] = [pc |-> "idle", task_id |-> 0]]
  /\ UNCHANGED <<jobVars, chunkVars, reconVars, redisVars, backend, observing, max_enqueues, worker_loops, pos_ret, tasks, task_queue, queue_list, jobs, store, requeues, worker, issued, putLog, getLog, preds, seenStarted,
                 reported>>

\* ------------------------------------------- LocalOrchestrator.process_queue
\* lines 59-64: for i in range(num_workers): create_task(AsyncLocalWorker.loop());
\* process_queue then waits in gather (line 67) for loops that never end
LocalProcessQueueMutant ==
  /\ backend = "local"
  /\ worker_loops = 0
  /\ worker_loops' = num_workers + 1
  /\ UNCHANGED <<jobVars, chunkVars, reconVars, redisVars, backend, observing, max_enqueues, pos_ret,
                 tasks, task_queue, queue_list, jobs, store, requeues, caller,
                 worker, issued, putLog, getLog, returned, preds, seenStarted,
                 reported>>

LocalProcessQueue ==
  /\ backend = "local"
  /\ worker_loops = 0
  /\ worker_loops' = num_workers
  /\ UNCHANGED <<jobVars, chunkVars, reconVars, redisVars, backend, observing, max_enqueues, pos_ret,
                 tasks, task_queue, queue_list, jobs, store, requeues, caller,
                 worker, issued, putLog, getLog, returned, preds, seenStarted,
                 reported>>

\* ------------------------------------------------ AsyncLocalWorker.loop
\* (spec 4.2) dequeue a task id (suspends when the queue is empty), look up
\* the Task, mark it STARTED
LocalWorkerGet(w) ==
  /\ backend = "local"
  /\ w <= worker_loops
  /\ FirstIdle(worker, w)
  /\ task_queue # <<>>
  /\ LET id == Head(task_queue) IN
       /\ task_queue' = Tail(task_queue)
       /\ queue_list' = RemoveFirst(queue_list, id)
       /\ getLog' = Append(getLog, id)
       /\ SetStatus(id, STARTED)
       /\ worker' = [worker EXCEPT ![w] = [pc |-> "running", task_id |-> id]]
  /\ UNCHANGED <<jobVars, chunkVars, reconVars, redisVars, backend, observing, max_enqueues, worker_loops, pos_ret, jobs, store, requeues, caller, issued,
                 putLog, returned, preds, reported>>

\* (spec 4.2, 7) run the pipeline for every source, then update status and
\* result together; a conversion that raises ends the task as FAILURE with a
\* result that says the whole task failed
LocalOutcomes == {"ok", "partial", "raise"}

LocalWorkerFinish(w) ==
  /\ backend = "local"
  /\ worker[w].pc = "running"
  /\ \E outcome \in LocalOutcomes :
       tasks' = [tasks EXCEPT ![worker[w].task_id] =
                   [task_status |-> IF outcome = "raise" THEN FAILURE ELSE SUCCESS,
                    results |-> {<<"result", outcome>>}]]
  /\ worker' = [worker EXCEPT ![w] = [pc |-> "idle", task_id |-> 0]]
  /\ UNCHANGED <<jobVars, chunkVars, reconVars, redisVars, backend, observing, max_enqueues, worker_loops, pos_ret, task_queue, queue_list, jobs, store, requeues, caller, issued, putLog, getLog, returned, preds,
                 seenStarted, reported>>

\* ------------------------------------------------ CustomRQWorker / rq worker
\* CustomRQWorker.perform_job (worker.py 50-58): the worker pops the job from
\* the queue and super().perform_job marks it started
RQWorkerPerformJob(w) ==
  /\ backend = "rq"
  /\ FirstIdle(worker, w)
  /\ task_queue # <<>>
  /\ LET id == Head(task_queue) IN
       /\ task_queue' = Tail(task_queue)
       /\ jobs' = [jobs EXCEPT ![id].status = "started"]
       /\ worker' = [worker EXCEPT ![w] = [pc |-> "running", task_id |-> id]]
  /\ UNCHANGED <<jobVars, chunkVars, reconVars, redisVars, backend, observing, max_enqueues, worker_loops, pos_ret, tasks, queue_list, store, requeues, caller,
                 issued, putLog, getLog, returned, preds, seenStarted, reported>>

\* conversion_task (worker.py 72-111): convert, process_results (per-document
\* failures are part of the result), pack, setex(result_key, results_ttl, packed)
RQConversionStore(w) ==
  /\ backend = "rq"
  /\ worker[w].pc = "running"
  /\ store' = store \cup {StoreEntry(worker[w].task_id)}
  /\ worker' = [worker EXCEPT ![w].pc = "stored"]
  /\ UNCHANGED <<jobVars, chunkVars, reconVars, redisVars, backend, observing, max_enqueues, worker_loops, pos_ret, tasks, task_queue, queue_list, jobs, requeues,
                 caller, issued, putLog, getLog, returned, preds, seenStarted,
                 reported>>

\* conversion_task (worker.py 113-118): finally, return result_key; rq marks
\* the job finished with that return value
RQConversionReturn(w) ==
  /\ backend = "rq"
  /\ worker[w].pc = "stored"
  /\ jobs' = [jobs EXCEPT ![worker[w].task_id] =
                [status |-> "finished",
                 return_value |-> {result_key(worker[w].task_id)}]]
  /\ worker' = [worker EXCEPT ![w] = [pc |-> "idle", task_id |-> 0]]
  /\ UNCHANGED <<jobVars, chunkVars, reconVars, redisVars, backend, observing, max_enqueues, worker_loops, pos_ret, tasks, task_queue, queue_list, store, requeues, caller, issued, putLog, getLog, returned, preds,
                 seenStarted, reported>>

\* conversion_task raises (worker.py 91-99: "No converter", "No conversion
\* options", convert_documents or process_results raising): the finally block
\* runs, nothing is stored, perform_job re-raises (59-62), rq marks the job failed
RQConversionRaise(w) ==
  /\ backend = "rq"
  /\ worker[w].pc = "running"
  /\ jobs' = [jobs EXCEPT ![worker[w].task_id].status = "failed"]
  /\ worker' = [worker EXCEPT ![w] = [pc |-> "idle", task_id |-> 0]]
  /\ UNCHANGED <<jobVars, chunkVars, reconVars, redisVars, backend, observing, max_enqueues, worker_loops, pos_ret, tasks, task_queue, queue_list, store, requeues, caller, issued, putLog, getLog, returned, preds,
                 seenStarted, reported>>

\* ------------------------------------------------ the external queue
\* (spec 4.3) at-least-once delivery: a failed job is put back on the queue
\* (rq requeue / redelivery) and runs again from scratch
RQRequeue(id) ==
  /\ backend = "rq"
  /\ id \in DOMAIN jobs
  /\ jobs[id].status = "failed"
  /\ requeues < MaxRequeue
  /\ requeues' = requeues + 1
  /\ jobs' = [jobs EXCEPT ![id].status = "queued"]
  /\ task_queue' = QueuePut(task_queue, id)
  /\ UNCHANGED <<jobVars, chunkVars, reconVars, redisVars, backend, observing, max_enqueues, worker_loops, pos_ret, tasks, queue_list, store, caller, worker,
                 issued, putLog, getLog, returned, preds, seenStarted,
                 reported>>

\* ------------------------------------- RQOrchestrator.get_queue_position
\* lines 101-117: the registry status is set from the job's native status
RQMapStatusMutant(js) ==
  IF js = "finished" THEN SUCCESS
  ELSE IF js = "queued" \/ js = "scheduled" THEN PENDING
  ELSE STARTED

RQMapStatus(js) ==
  IF js = "finished" THEN SUCCESS
  ELSE IF js = "queued" \/ js = "scheduled" THEN PENDING
  ELSE IF js = "started" THEN STARTED
  ELSE FAILURE

\* what can fail while get_queue_position talks to Redis: nothing, Job.fetch
\* (98), job.get_status (99), job.get_position (100), job.return_value (104)
RQFaults == {"none", "fetch", "get_status", "get_position", "return_value"}

\* lines 98-117 on the registry: Job.fetch raises when Redis holds no such job
\* and self.tasks[task_id] raises for an unknown id; both leave the registry as
\* it is. In the FINISHED branch task is the registry's own Task object and
\* task_status is assigned (103) before job.return_value() is called (104)
RQRefreshedCall(t, fault) ==
  IF t \notin DOMAIN jobs \/ t \notin DOMAIN tasks
     \/ fault \in {"fetch", "get_status", "get_position"}
  THEN tasks
  ELSE IF jobs[t].status = "finished"
    THEN IF fault = "return_value"
         THEN [tasks EXCEPT ![t].task_status = SUCCESS]
         ELSE [tasks EXCEPT ![t] = [task_status |-> SUCCESS,
                                    results |-> jobs[t].return_value]]
    ELSE [tasks EXCEPT ![t].task_status = RQMapStatus(jobs[t].status)]

RQRefreshed(t) == RQRefreshedCall(t, "none")

NowStarted(tk) == {t \in DOMAIN tk : tk[t].task_status = STARTED}

\* list.index / rq's job_ids.index: 0-based
ZeroIndex(s, x) == IndexOf(s, x) - 1

\* job.get_position(): the index of the job id in its queue, None if it is
\* not queued
get_position(t) ==
  IF t \in Range(task_queue) THEN {ZeroIndex(task_queue, t)} ELSE {}

\* the try block, lines 98-118
RQPositionBody(t, fault) ==
  IF fault = "fetch" THEN PosRaise("ConnectionError")
  ELSE IF t \notin DOMAIN jobs THEN PosRaise("NoSuchJobError")
  ELSE IF fault \in {"get_status", "get_position"} THEN PosRaise("ConnectionError")
  ELSE IF t \notin DOMAIN tasks THEN PosRaise("KeyError")
  ELSE IF jobs[t].status = "finished" /\ fault = "return_value"
    THEN PosRaise("ConnectionError")
  ELSE LET queue_pos == get_position(t)
       IN PosReturn(IF queue_pos # {} THEN {q + 1 : q \in queue_pos} ELSE {0})

\* try ... except Exception: log, return None (95, 119-121)
RQTryExceptMutant(out) == out
RQTryExcept(out) == IF out.kind = "raise" THEN PosReturn({}) ELSE out

RQQueuePosition(t, fault) == RQTryExcept(RQPositionBody(t, fault))

RQGetQueuePosition(t) ==
  /\ backend = "rq"
  /\ \E fault \in (IF redis_up THEN {"none"} ELSE RQFaults) :
       /\ tasks' = RQRefreshedCall(t, fault)
       /\ pos_ret' = IF observing = "position"
                     THEN [task_id |-> t, fault |-> fault,
                           out |-> RQQueuePosition(t, fault)]
                     ELSE pos_ret
  /\ seenStarted' = IF observing = "status" THEN seenStarted \cup NowStarted(tasks')
                     ELSE seenStarted
  /\ UNCHANGED <<jobVars, chunkVars, reconVars, redisVars, backend, observing, max_enqueues,
                 worker_loops, task_queue, queue_list, jobs, store, requeues,
                 caller, worker, issued, putLog, getLog, returned, preds,
                 reported>>

\* ---------------------------- LocalOrchestrator.get_queue_position (52-55)
\* queue_list.index(task_id) + 1 if task_id in queue_list else None
LocalQueuePosition(t) ==
  IF t \in Range(queue_list) THEN {ZeroIndex(queue_list, t) + 1} ELSE {}

LocalGetQueuePosition(t) ==
  /\ backend = "local"
  /\ pos_ret' = IF observing = "position"
                THEN [task_id |-> t, fault |-> "none",
                      out |-> PosReturn(LocalQueuePosition(t))]
                ELSE pos_ret
  /\ UNCHANGED <<jobVars, chunkVars, reconVars, redisVars, backend, observing, max_enqueues,
                 worker_loops, tasks, task_queue, queue_list, jobs, store,
                 requeues, caller, worker, issued, putLog, getLog, returned,
                 preds, seenStarted, reported>>

\* ------------------------------------ RQOrchestrator.check_connection
\* lines 134-143: ping, and unless api_only, Worker.count must not be 0
check_connection_no_count ==
  IF ~redis_up THEN "RuntimeError: No connection to Redis"
  ELSE "return"

check_connection ==
  IF ~redis_up THEN "RuntimeError: No connection to Redis"
  ELSE IF ~api_only /\ workers_attached = 0
    THEN "RuntimeError: No workers connected to Redis"
  ELSE "return"

RQCheckConnection ==
  /\ backend = "rq"
  /\ conn_ret' = IF observing = "position" THEN check_connection ELSE conn_ret
  /\ UNCHANGED <<jobVars, chunkVars, reconVars, api_only, redis_up, workers_attached,
                 backend, observing, max_enqueues, worker_loops, pos_ret, tasks,
                 task_queue, queue_list, jobs, store, requeues, caller, worker,
                 issued, putLog, getLog, returned, preds, seenStarted, reported>>

\* ---------------------------------------------- BaseOrchestrator (spec 4.1)
\* task_status(task_id): refreshes and returns the current view of the task;
\* the durable backend fetches the job's state and reconciles the registry
TaskStatusCall(t) ==
  /\ t \in DOMAIN tasks
  /\ tasks' = IF backend = "rq" THEN RQRefreshed(t) ELSE tasks
  /\ seenStarted' = IF observing = "status" THEN seenStarted \cup NowStarted(tasks')
                     ELSE seenStarted
  /\ reported' = IF observing = "status" /\ tasks'[t].task_status \in Terminal
                  THEN reported \cup {t} ELSE reported
  /\ UNCHANGED <<jobVars, chunkVars, reconVars, redisVars, backend, observing, max_enqueues, worker_loops, pos_ret, task_queue, queue_list, jobs, store, requeues, caller, worker, issued, putLog, getLog, returned,
                 preds>>

\* task_result(task_id): the finished result if available, None ({}) otherwise;
\* the durable backend fetches the blob stored under the recorded key
task_result(t) ==
  IF t \notin DOMAIN tasks THEN {}
  ELSE IF backend = "rq"
    THEN {k \in tasks[t].results : \E e \in store : e[1] = k}
  ELSE tasks[t].results

\* ===================================================== DocumentChunkerManager
Threads == 1..NumThreads

\* ChunkingOptions: the fields chunking.py and its tests read
ChunkingOptionsSet ==
  {[tokenizer |-> "None", max_tokens |-> 512, merge_peers |-> TRUE,
    use_markdown_tables |-> FALSE, include_raw_text |-> TRUE],
   [tokenizer |-> "None", max_tokens |-> 1024, merge_peers |-> TRUE,
    use_markdown_tables |-> FALSE, include_raw_text |-> TRUE],
   [tokenizer |-> "custom/tokenizer", max_tokens |-> 512, merge_peers |-> FALSE,
    use_markdown_tables |-> TRUE, include_raw_text |-> FALSE],
   [tokenizer |-> "None", max_tokens |-> 512, merge_peers |-> TRUE,
    use_markdown_tables |-> FALSE, include_raw_text |-> FALSE]}

\* the fields of ChunkingOptions, in the order the class declares them
OptionFields ==
  <<"use_markdown_tables", "include_raw_text", "max_tokens", "tokenizer",
    "merge_peers">>

\* orders in which the fields can be written: the declared order and its
\* reverse, each started at any field
FieldOrders ==
  LET n == Len(OptionFields) IN
  {[i \in 1..n |-> ((i - 1 + r) % n) + 1] : r \in 0..(n - 1)} \cup
  {[i \in 1..n |-> n - ((i - 1 + r) % n)] : r \in 0..(n - 1)}

\* the ways a caller can write one configuration: the field values as keyword
\* arguments (or as the members of a request body) in any order
Constructions(o) ==
  {[i \in 1..Len(OptionFields) |->
      <<OptionFields[p[i]], o[OptionFields[p[i]]]>>] : p \in FieldOrders}

\* ChunkingOptions(**kwargs): pydantic stores each value under its field name
ChunkingOptions(kwargs) ==
  [f \in Range(OptionFields) |->
     kwargs[CHOOSE i \in 1..Len(kwargs) : kwargs[i][1] = f][2]]

\* hashlib.sha1(...).hexdigest() is 40 hexadecimal characters
Sha1HexDigits == 40

\* A string is modelled as the sequence of its "_"-separated fields, which is
\* what str.split("_") returns.
\* a key that joins the values with "_" and is not hashed
_generate_cache_key_plain(options) ==
  <<options.tokenizer, options.max_tokens, options.merge_peers,
    options.use_markdown_tables>>

\* _generate_cache_key (134-147): sha1 of json.dumps(key_data, sort_keys=True);
\* a hexdigest holds only 0-9a-f, so it is one field
_generate_cache_key_no_max_tokens(options) ==
  LET serialized_data ==
        <<<<"merge_peers", options.merge_peers>>,
          <<"tokenizer", options.tokenizer>>,
          <<"use_markdown_tables", options.use_markdown_tables>>>>
  IN <<[sha1 |-> serialized_data]>>

_generate_cache_key(options) ==
  LET serialized_data ==
        <<<<"max_tokens", options.max_tokens>>,
          <<"merge_peers", options.merge_peers>>,
          <<"tokenizer", options.tokenizer>>,
          <<"use_markdown_tables", options.use_markdown_tables>>>>
  IN <<[sha1 |-> serialized_data]>>

CacheKeys == {_generate_cache_key(o) : o \in ChunkingOptionsSet}

NoResult == [kind |-> "none", engine |-> <<>>, exc |-> ""]
Raised(e) == [kind |-> "raise", engine |-> <<>>, exc |-> e]
Engine(e) == [kind |-> "engine", engine |-> e, exc |-> ""]

\* the body of _get_chunker_from_cache (72-122) for a key that is not cached:
\* the imports, then parts = cache_key.split("_") and parts[1], parts[2],
\* parts[3] (IndexError is none of the exceptions the body catches), then the
\* construction of the tokenizer and of HybridChunker
_get_chunker_from_cache(cache_key) ==
  LET parts == cache_key IN
  IF ~chunking_deps THEN Raised("ImportError")
  ELSE IF Len(parts) < 4 THEN Raised("IndexError")
  ELSE Engine(<<cache_key, ctor_calls[cache_key] + 1,
                [tokenizer |-> parts[1], max_tokens |-> parts[2],
                 merge_peers |-> (parts[3] = "True"),
                 use_markdown_tables |-> (parts[4] = "True")]>>)

LruIndex(cache_key) ==
  IF \E i \in 1..Len(lru) : lru[i][1] = cache_key
  THEN CHOOSE i \in 1..Len(lru) : lru[i][1] = cache_key
  ELSE 0

ChunkInit ==
  /\ chunking_deps \in BOOLEAN
  /\ cache_size \in 1..MaxCacheSize
  /\ lru = <<>>
  /\ cache_lock = 0
  /\ thr = [th \in Threads |->
              [pc |-> "idle", options |-> {}, cache_key |-> <<>>,
               result |-> NoResult]]
  /\ ctor_calls = [k \in CacheKeys |-> 0]
  /\ calls_made = 0
  /\ dropped = {}
  /\ attempts = [k \in CacheKeys |-> 0]
  /\ cleared = FALSE
  /\ requests = <<>>

\* the chunker cache of an orchestrator run that does no chunking
ChunkIdle ==
  /\ chunking_deps = TRUE
  /\ cache_size = 1
  /\ lru = <<>>
  /\ cache_lock = 0
  /\ thr = [th \in Threads |->
              [pc |-> "idle", options |-> {}, cache_key |-> <<>>,
               result |-> NoResult]]
  /\ ctor_calls = [k \in CacheKeys |-> 0]
  /\ calls_made = 0
  /\ dropped = {}
  /\ attempts = [k \in CacheKeys |-> 0]
  /\ cleared = FALSE
  /\ requests = <<>>

\* _get_chunker line 129: cache_key = self._generate_cache_key(options)
GetChunkerBegin(th) ==
  /\ FirstIdle(thr, th)
  /\ calls_made < MaxChunkerCalls
  /\ calls_made' = calls_made + 1
  /\ \E o \in ChunkingOptionsSet : \E kwargs \in Constructions(o) :
       LET options == ChunkingOptions(kwargs) IN
       thr' = [thr EXCEPT ![th] = [pc |-> "keyed",
                                   options |-> {options},
                                   cache_key |-> _generate_cache_key(options),
                                   result |-> NoResult]]
  /\ UNCHANGED <<jobVars, orchVars, reconVars, chunking_deps, cache_size, lru,
                 cache_lock, ctor_calls, dropped, attempts, cleared, requests>>

\* line 131: with self._cache_lock (blocks while another thread holds it)
GetChunkerAcquire(th) ==
  /\ thr[th].pc = "keyed"
  /\ cache_lock = 0
  /\ cache_lock' = th
  /\ thr' = [thr EXCEPT ![th].pc = "locked"]
  /\ UNCHANGED <<jobVars, orchVars, reconVars, chunking_deps, cache_size, lru,
                 ctor_calls, calls_made, dropped, attempts, cleared, requests>>

\* a cache that also stores the failure of the body under the key
GetChunkerCachedNegative(th) ==
  /\ thr[th].pc = "locked"
  /\ LET k == thr[th].cache_key
         i == LruIndex(k)
         out == _get_chunker_from_cache(k)
         kept == IF Len(lru) >= cache_size THEN Tail(lru) ELSE lru
     IN IF i # 0
        THEN /\ lru' = SelectSeq(lru, LAMBDA e : e[1] # k) \o <<lru[i]>>
             /\ thr' = [thr EXCEPT ![th].pc = "leaving",
                                   ![th].result = Engine(lru[i][2])]
             /\ UNCHANGED <<ctor_calls, dropped, attempts>>
        ELSE IF out.kind = "engine"
        THEN /\ lru' = Append(kept, <<k, out.engine>>)
             /\ dropped' = IF Len(lru) >= cache_size
                           THEN dropped \cup {lru[1][1]} ELSE dropped
             /\ ctor_calls' = [ctor_calls EXCEPT ![k] = @ + 1]
             /\ attempts' = [attempts EXCEPT ![k] = @ + 1]
             /\ thr' = [thr EXCEPT ![th].pc = "leaving", ![th].result = out]
        ELSE /\ lru' = Append(kept, <<k, <<>>>>)
             /\ thr' = [thr EXCEPT ![th].pc = "leaving", ![th].result = out]
             /\ attempts' = [attempts EXCEPT ![k] = @ + 1]
             /\ UNCHANGED <<ctor_calls, dropped>>
  /\ cleared' = FALSE
  /\ UNCHANGED <<jobVars, orchVars, reconVars, chunking_deps, cache_size, cache_lock,
                 calls_made, requests>>

\* line 132 under the lock: the lru_cache(maxsize=cache_size) wrapper returns the
\* cached engine and makes it the most recent; on a miss it runs the body, and
\* stores what it returns, evicting the least recent entry of a full cache; a
\* body that raises stores nothing
GetChunkerCached(th) ==
  /\ thr[th].pc = "locked"
  /\ LET k == thr[th].cache_key
         i == LruIndex(k)
         out == _get_chunker_from_cache(k)
         kept == IF Len(lru) >= cache_size THEN Tail(lru) ELSE lru
     IN IF i # 0
        THEN /\ lru' = SelectSeq(lru, LAMBDA e : e[1] # k) \o <<lru[i]>>
             /\ thr' = [thr EXCEPT ![th].pc = "leaving",
                                   ![th].result = Engine(lru[i][2])]
             /\ UNCHANGED <<ctor_calls, dropped, attempts>>
        ELSE IF out.kind = "engine"
        THEN /\ lru' = Append(kept, <<k, out.engine>>)
             /\ dropped' = IF Len(lru) >= cache_size
                           THEN dropped \cup {lru[1][1]} ELSE dropped
             /\ ctor_calls' = [ctor_calls EXCEPT ![k] = @ + 1]
             /\ attempts' = [attempts EXCEPT ![k] = @ + 1]
             /\ thr' = [thr EXCEPT ![th].pc = "leaving", ![th].result = out]
        ELSE /\ thr' = [thr EXCEPT ![th].pc = "leaving", ![th].result = out]
             /\ attempts' = [attempts EXCEPT ![k] = @ + 1]
             /\ UNCHANGED <<lru, ctor_calls, dropped>>
  /\ cleared' = FALSE
  /\ UNCHANGED <<jobVars, orchVars, reconVars, chunking_deps, cache_size, cache_lock,
                 calls_made, requests>>

\* leaving the with block: the lock is released, the engine is returned or
\* the exception propagates to the caller
GetChunkerRelease(th) ==
  /\ thr[th].pc = "leaving"
  /\ cache_lock' = 0
  /\ thr' = [thr EXCEPT ![th].pc = "done"]
  /\ UNCHANGED <<jobVars, orchVars, reconVars, chunking_deps, cache_size, lru,
                 ctor_calls, calls_made, dropped, attempts, cleared, requests>>

\* the caller goes on; the thread may call again
GetChunkerDone(th) ==
  /\ thr[th].pc = "done"
  /\ thr' = [thr EXCEPT ![th] = [pc |-> "idle", options |-> {},
                                 cache_key |-> <<>>, result |-> NoResult]]
  /\ UNCHANGED <<jobVars, orchVars, reconVars, chunking_deps, cache_size, lru,
                 cache_lock, ctor_calls, calls_made, dropped, attempts,
                 cleared, requests>>

\* clear_cache without the lock
ClearCacheNoLock(th) ==
  /\ thr[th].pc = "idle"
  /\ lru' = <<>>
  /\ dropped' = dropped \cup {lru[i][1] : i \in 1..Len(lru)}
  /\ cleared' = TRUE
  /\ UNCHANGED <<jobVars, orchVars, reconVars, chunking_deps, cache_size, cache_lock,
                 thr, ctor_calls, calls_made, attempts, requests>>

\* clear_cache (149-152): with self._cache_lock: cache_clear()
ClearCache(th) ==
  /\ thr[th].pc = "idle"
  /\ cache_lock = 0
  /\ lru' = <<>>
  /\ dropped' = dropped \cup {lru[i][1] : i \in 1..Len(lru)}
  /\ cleared' = TRUE
  /\ UNCHANGED <<jobVars, orchVars, reconVars, chunking_deps, cache_size, cache_lock,
                 thr, ctor_calls, calls_made, attempts, requests>>

\* process_chunk_results (225-253) for one converted document, up to its call
\* of _get_chunker: line 242 makes a new DocumentChunkerManager, whose cache is
\* empty and whose lock is free, and chunk_document (170) calls _get_chunker
\* with the options of the request; the worker runs one request at a time
ProcessChunkResults(th) ==
  /\ \A o \in Threads : thr[o].pc = "idle"
  /\ calls_made < MaxChunkerCalls
  /\ calls_made' = calls_made + 1
  /\ lru' = <<>>
  /\ cache_lock' = 0
  /\ \E o \in ChunkingOptionsSet : \E kwargs \in Constructions(o) :
       LET chunking_options == ChunkingOptions(kwargs) IN
       thr' = [thr EXCEPT ![th] = [pc |-> "keyed",
                                   options |-> {chunking_options},
                                   cache_key |-> _generate_cache_key(chunking_options),
                                   result |-> NoResult]]
  /\ UNCHANGED <<jobVars, orchVars, reconVars, chunking_deps, cache_size, ctor_calls,
                 dropped, attempts, cleared, requests>>

\* lines 247-265: the chunks of the engine are added, or the exception of
\* chunk_document is caught and counted; the manager is not used again
ProcessChunkResultsReturn(th) ==
  /\ thr[th].pc = "done"
  /\ requests' = Append(requests, [options |-> thr[th].options,
                                   result |-> thr[th].result])
  /\ thr' = [thr EXCEPT ![th] = [pc |-> "idle", options |-> {},
                                 cache_key |-> <<>>, result |-> NoResult]]
  /\ UNCHANGED <<jobVars, orchVars, reconVars, chunking_deps, cache_size, lru,
                 cache_lock, ctor_calls, calls_made, dropped, attempts,
                 cleared>>

\* the requests of one worker process, one after the other
RequestNext ==
  \/ ProcessChunkResults(1)
  \/ GetChunkerAcquire(1)
  \/ GetChunkerCached(1)
  \/ GetChunkerRelease(1)
  \/ ProcessChunkResultsReturn(1)

ChunkNext ==
  \/ \E th \in Threads : GetChunkerBegin(th)
  \/ \E th \in Threads : GetChunkerAcquire(th)
  \/ \E th \in Threads : GetChunkerCached(th)
  \/ \E th \in Threads : GetChunkerRelease(th)
  \/ \E th \in Threads : GetChunkerDone(th)
  \/ \E th \in Threads : ClearCache(th)

\* ============================================== S3 reconciliation helpers
\* An object key is modelled as a sequence of tokens; the source prefix with
\* its "/", the converted prefix and the extensions are one token each, so that
\* str.replace(old, "") is the removal of every token equal to old.
SourcePrefix == "src/"
ConvertedPrefix == "tgt/json/"
Pdf == ".pdf"
Json == ".json"

\* keys a listing under the source prefix can return
SourceKeySet ==
  {<<SourcePrefix, "a", Pdf>>,
   <<SourcePrefix, "b", Pdf>>,
   <<SourcePrefix, "a", Pdf, Pdf>>,
   <<SourcePrefix, SourcePrefix, "a", Pdf>>}

\* keys a listing under the target's converted prefix can return
TargetKeySet ==
  {<<ConvertedPrefix, "a", Json>>,
   <<ConvertedPrefix, "b", Json>>,
   <<ConvertedPrefix, "a", Pdf, Json>>,
   <<ConvertedPrefix, "a", Json, Json>>}

\* lists without repetition of at most n elements of S
RECURSIVE ListsOf(_, _)
ListsOf(S, n) ==
  IF n = 0 THEN {<<>>}
  ELSE ListsOf(S, n - 1) \cup
       {Append(l, x) : l \in {m \in ListsOf(S, n - 1) : Len(m) = n - 1},
                       x \in S}

NoRepeat(l) == \A i, j \in 1..Len(l) : i # j => l[i] # l[j]

\* str.replace(old, "")
StrReplace(key, old) == SelectSeq(key, LAMBDA tok : tok # old)

\* strip_prefix_postfix (s3_helper.py 89-93)
strip_prefix_postfix(source_set, prefix, extension) ==
  {StrReplace(StrReplace(key, extension), prefix) : key \in source_set}

\* count_s3_objects (68-75) over the pages of the listing
count_s3_objects(listing) == Cardinality(listing)

\* check_target_has_source_converted (146-178)
check_target_has_source_converted(target, source_list) ==
  IF count_s3_objects(target) # 0
  THEN LET short_key_list ==
             strip_prefix_postfix(target, ConvertedPrefix, Json)
       IN SelectSeq(source_list,
                    LAMBDA key :
                      StrReplace(StrReplace(key, Pdf), SourcePrefix)
                        \notin short_key_list)
  ELSE source_list

\* the loop of generate_batch_keys without the flush of the last, short batch
RECURSIVE BatchLoopNoFlush(_, _, _, _, _, _)
BatchLoopNoFlush(source_keys, size, idx, batched_keys, sub_array, counter) ==
  IF idx > Len(source_keys) THEN batched_keys
  ELSE IF counter + 1 = size
    THEN BatchLoopNoFlush(source_keys, size, idx + 1,
                          Append(batched_keys, Append(sub_array, source_keys[idx])),
                          <<>>, 0)
    ELSE BatchLoopNoFlush(source_keys, size, idx + 1, batched_keys,
                          Append(sub_array, source_keys[idx]), counter + 1)

\* the loop of generate_batch_keys without sub_array = []
RECURSIVE BatchLoopNoReset(_, _, _, _, _, _)
BatchLoopNoReset(source_keys, size, idx, batched_keys, sub_array, counter) ==
  IF idx > Len(source_keys) THEN batched_keys
  ELSE IF counter + 1 = size \/ idx = Len(source_keys)
    THEN BatchLoopNoReset(source_keys, size, idx + 1,
                          Append(batched_keys, Append(sub_array, source_keys[idx])),
                          Append(sub_array, source_keys[idx]), 0)
    ELSE BatchLoopNoReset(source_keys, size, idx + 1, batched_keys,
                          Append(sub_array, source_keys[idx]), counter + 1)

\* generate_batch_keys (96-112): the loop over enumerate(source_keys)
RECURSIVE BatchLoop(_, _, _, _, _, _)
BatchLoop(source_keys, size, idx, batched_keys, sub_array, counter) ==
  IF idx > Len(source_keys) THEN batched_keys
  ELSE IF counter + 1 = size \/ idx = Len(source_keys)
    THEN BatchLoop(source_keys, size, idx + 1,
                   Append(batched_keys, Append(sub_array, source_keys[idx])),
                   <<>>, 0)
    ELSE BatchLoop(source_keys, size, idx + 1, batched_keys,
                   Append(sub_array, source_keys[idx]), counter + 1)

\* a batching that flushes sub_array after the loop, also when it is empty
generate_batch_keys_flush_after(source_keys, size) ==
  IF source_keys = <<>> THEN <<<<>>>>
  ELSE BatchLoop(source_keys, size, 1, <<>>, <<>>, 0)

generate_batch_keys(source_keys, size) ==
  BatchLoop(source_keys, size, 1, <<>>, <<>>, 0)

\* the string s3_client.generate_presigned_url returns for a key
PresignedUrl(source_key) == <<"https", source_key>>

\* generate_presign_url (s3_helper.py 115-129): Optional[str], None ({}) when
\* the client raises ClientError
generate_presign_url(source_key) ==
  IF source_key \in url_errors THEN {} ELSE {PresignedUrl(source_key)}

ReconInit ==
  /\ rc_pc = "listed"
  /\ source_objects_list \in {l \in ListsOf(SourceKeySet, MaxKeys) : NoRepeat(l)}
  /\ target_listing \in SUBSET TargetKeySet
  /\ batch_size \in 0..MaxBatchSize
  /\ filtered_source_keys = <<>>
  /\ batch_keys = <<>>
  /\ target_short_key_list = {}
  /\ batch_indices = <<>>
  /\ url_errors \in {{}} \cup {{k} : k \in Range(source_objects_list)}
  /\ presign_filtered_source_keys = <<>>

\* the reconciliation state of a run that reconciles nothing
ReconIdle ==
  /\ rc_pc = "off"
  /\ source_objects_list = <<>>
  /\ target_listing = {}
  /\ batch_size = 0
  /\ filtered_source_keys = <<>>
  /\ batch_keys = <<>>
  /\ target_short_key_list = {}
  /\ batch_indices = <<>>
  /\ url_errors = {}
  /\ presign_filtered_source_keys = <<>>

\* compute_batches (kfp_pipeline/docling_s3in_s3out.py 105-107)
CheckTargetHasSourceConverted ==
  /\ rc_pc = "listed"
  /\ filtered_source_keys' =
       check_target_has_source_converted(target_listing, source_objects_list)
  /\ target_short_key_list' =
       IF count_s3_objects(target_listing) # 0
       THEN strip_prefix_postfix(target_listing, ConvertedPrefix, Json)
       ELSE {}
  /\ rc_pc' = "filtered"
  /\ UNCHANGED <<jobVars, orchVars, chunkVars, source_objects_list, target_listing,
                 batch_size, batch_keys, batch_indices, url_errors,
                 presign_filtered_source_keys>>

\* compute_batches (108-122): lines 108-111 make the list of the presigned
\* urls of the pending keys, which is what is batched; line 120 returns
\* list(range(len(batch_keys))), and the pipeline starts one convert_payload
\* per index (187-193)
GenerateBatchKeys ==
  /\ rc_pc = "filtered"
  /\ presign_filtered_source_keys' =
       [j \in 1..Len(filtered_source_keys) |->
          generate_presign_url(filtered_source_keys[j])]
  /\ batch_keys' = generate_batch_keys(presign_filtered_source_keys', batch_size)
  /\ batch_indices' = [i \in 1..Len(batch_keys') |-> i - 1]
  /\ rc_pc' = "batched"
  /\ UNCHANGED <<jobVars, orchVars, chunkVars, source_objects_list, target_listing,
                 batch_size, filtered_source_keys, target_short_key_list,
                 url_errors>>

ReconNext ==
  \/ CheckTargetHasSourceConverted
  \/ GenerateBatchKeys

\* ======================================= DoclingConvert.convert_documents
Docx == ".docx"
SubFolder == "sub/"
Extensions == {Pdf, Docx, Json}

\* keys of a source listing with a document in a sub-folder of the source
\* prefix and a document that is no pdf
ConvertKeySet ==
  {<<SourcePrefix, "a", Pdf>>,
   <<SourcePrefix, "b", Pdf>>,
   <<SourcePrefix, SubFolder, "c", Pdf>>,
   <<SourcePrefix, "d", Docx>>}

\* what DocumentConverter.convert(url) does: it returns a result with one of
\* the three statuses convert_documents tells apart, or raises ConversionError
ConverterOutcomes == {"SUCCESS", "PARTIAL_SUCCESS", "FAILURE", "ConversionError"}

\* os.path.splitext(urlparse(url).path)[1]: the last extension of the key
SplitExt(key) ==
  IF key # <<>> /\ key[Len(key)] \in Extensions THEN key[Len(key)] ELSE ""

\* conv_res.input.file: the last component of the path
InputFile(key) ==
  SelectSeq(key, LAMBDA tok : tok \notin {SourcePrefix, SubFolder})

\* PurePath.stem: the last component without its last suffix
Stem(key) ==
  LET name == InputFile(key) IN
  IF Len(name) > 1 /\ name[Len(name)] \in Extensions
  THEN SubSeq(name, 1, Len(name) - 1)
  ELSE name

\* line 316: f"{s3_target_prefix}/json/{doc_filename}.json"
TargetJsonKey(key) == <<ConvertedPrefix>> \o Stem(key) \o <<Json>>

\* lines 291-379: the string yielded for the result conv_res holds (the
\* document it is about is kept beside the name the string shows)
ConvertYield(cr) ==
  [of |-> cr.input,
   name |-> IF cr.status = "SUCCESS" THEN Stem(cr.input) ELSE InputFile(cr.input),
   outcome |-> IF cr.status \in {"SUCCESS", "PARTIAL_SUCCESS"} THEN cr.status
               ELSE "FAILURE"]

\* a reconciliation run followed by the conversion of what it lists
\* (dev/s3_helper_test.py 174-213)
ConvertInit ==
  /\ OrchIdle /\ ChunkIdle /\ pcr_frame = <<>> /\ tk_frame = <<>>
  /\ rc_pc = "listed"
  /\ source_objects_list \in {l \in ListsOf(ConvertKeySet, MaxKeys) : NoRepeat(l)}
  /\ target_listing \in {{}, {<<ConvertedPrefix, "b", Json>>}}
  /\ batch_size = 0
  /\ filtered_source_keys = <<>>
  /\ batch_keys = <<>>
  /\ target_short_key_list = {}
  /\ batch_indices = <<>>
  /\ url_errors \in {{}} \cup {{k} : k \in Range(source_objects_list)}
  /\ presign_filtered_source_keys = <<>>
  /\ \E formats \in {{Pdf, Docx}, {Pdf}} : \E json \in BOOLEAN :
       cv_frame = [pc |-> "ready", allowed_formats |-> formats, json_wanted |-> json,
             object_keys |-> <<>>, idx |-> 0, conv_res |-> {},
             yielded |-> <<>>, log |-> <<>>]

\* converter.convert_documents(filtered_source_keys)
ConvertDocumentsBegin ==
  /\ rc_pc = "filtered"
  /\ cv_pc = "ready"
  /\ cv_frame' = [cv_frame EXCEPT !.object_keys = filtered_source_keys, !.pc = "loop"]
  /\ UNCHANGED <<orchVars, chunkVars, reconVars, pcr_frame, tk_frame>>

\* one iteration of the loop (273-379)
ConvertKey ==
  /\ cv_pc = "loop"
  /\ cv_idx < Len(object_keys)
  /\ \E out \in ConverterOutcomes :
       LET key == object_keys[cv_idx + 1]
           url == generate_presign_url(key)
       IN
       IF url = {} \/ SplitExt(key) \notin allowed_formats
       THEN \* lines 280-281, 285-286: continue
            /\ cv_frame' = [cv_frame EXCEPT
                        !.idx = @ + 1,
                        !.log = Append(@,
                          [key |-> key,
                           event |-> IF url = {} THEN "no url" ELSE "not allowed",
                           yielded |-> {}, uploaded |-> {}])]
            /\ UNCHANGED target_listing
       ELSE \* lines 287-290: a ConversionError is logged and conv_res keeps
            \* what it held
            LET res == IF out = "ConversionError" THEN conv_res
                       ELSE {[input |-> key, status |-> out]}
            IN
            IF res = {}
            THEN \* line 291 reads the unbound conv_res: UnboundLocalError
                 /\ cv_frame' = [cv_frame EXCEPT
                             !.idx = @ + 1,
                             !.pc = "raised",
                             !.log = Append(@,
                               [key |-> key, event |-> out, yielded |-> {},
                                uploaded |-> {}])]
                 /\ UNCHANGED target_listing
            ELSE LET cr == CHOOSE x \in res : TRUE
                     up == IF cr.status = "SUCCESS" /\ json_wanted
                           THEN {TargetJsonKey(cr.input)} ELSE {}
                 IN
                 /\ target_listing' = target_listing \cup up
                 /\ cv_frame' = [cv_frame EXCEPT
                             !.idx = @ + 1,
                             !.conv_res = res,
                             !.yielded = Append(@, ConvertYield(cr)),
                             !.log = Append(@,
                               [key |-> key, event |-> out,
                                yielded |-> {ConvertYield(cr)},
                                uploaded |-> up])]
  /\ UNCHANGED <<orchVars, chunkVars, pcr_frame, tk_frame, rc_pc,
                 source_objects_list, batch_size, filtered_source_keys,
                 batch_keys, target_short_key_list, batch_indices, url_errors,
                 presign_filtered_source_keys>>

\* the loop has gone through every key: the generator is exhausted
ConvertDocumentsEnd ==
  /\ cv_pc = "loop"
  /\ cv_idx = Len(object_keys)
  /\ cv_frame' = [cv_frame EXCEPT !.pc = "done"]
  /\ UNCHANGED <<orchVars, chunkVars, reconVars, pcr_frame, tk_frame>>

ConvertNext ==
  \/ CheckTargetHasSourceConverted
  \/ ConvertDocumentsBegin
  \/ ConvertKey
  \/ ConvertDocumentsEnd

\* ======================================================= conversion_task
\* the variants of the TaskSource union (task_sources.py 9-23), as
\* Task.model_validate builds them: a file, a url without and with request
\* headers, an S3 location
TaskSourceSet ==
  {[kind |-> "file", name |-> "doc", headers |-> {}],
   [kind |-> "http", name |-> "url1", headers |-> {}],
   [kind |-> "http", name |-> "url2", headers |-> {"h2"}],
   [kind |-> "http", name |-> "url3", headers |-> {"h3"}],
   [kind |-> "s3", name |-> "bucket", headers |-> {}]}

\* sequences, with repetition, of at most n elements of S
RECURSIVE SeqsOf(_, _)
SeqsOf(S, n) ==
  IF n = 0 THEN {<<>>}
  ELSE SeqsOf(S, n - 1) \cup
       {Append(l, x) : l \in {m \in SeqsOf(S, n - 1) : Len(m) = n - 1},
                       x \in S}

\* the isinstance chain of lines 82-89, as the inputs it appends for one
\* source: TaskFileSource is a FileSource, TaskHttpSource an HttpSource;
\* TaskS3Source derives from S3Coordinates and is none of DocumentStream,
\* FileSource, HttpSource, and the chain has no else
ConvertSourcesOf(source) ==
  IF source.kind = "file"
  THEN <<[input |-> "DocumentStream", of |-> source.name]>>
  ELSE IF source.kind = "http"
  THEN <<[input |-> "str", of |-> source.name]>>
  ELSE <<>>

\* rq hands the worker a serialized Task (orchestrator.py 81-86)
TaskInit ==
  /\ OrchIdle /\ ChunkIdle /\ ReconIdle /\ cv_frame = <<>> /\ pcr_frame = <<>>
  /\ \E sources \in SeqsOf(TaskSourceSet, MaxSources) :
       tk_frame = [pc |-> "loop", sources |-> sources, idx |-> 0,
                   convert_sources |-> <<>>, headers |-> {}]

\* one iteration of `for source in task.sources` (81-89)
ConversionTaskSource ==
  /\ tk_pc = "loop"
  /\ tk_idx < Len(task_sources)
  /\ LET source == task_sources[tk_idx + 1] IN
       tk_frame' = [tk_frame EXCEPT
                !.convert_sources = @ \o ConvertSourcesOf(source),
                !.headers = IF source.kind = "http" /\ @ = {}
                            THEN source.headers ELSE @,
                !.idx = @ + 1]
  /\ UNCHANGED <<orchVars, chunkVars, reconVars, cv_frame, pcr_frame>>

\* lines 91-99: the worker was given its converter and the task its options,
\* so convert_documents is called with what the loop collected
ConversionTaskConvert ==
  /\ tk_pc = "loop"
  /\ tk_idx = Len(task_sources)
  /\ tk_frame' = [tk_frame EXCEPT !.pc = "called"]
  /\ UNCHANGED <<orchVars, chunkVars, reconVars, cv_frame, pcr_frame>>

DispatchNext ==
  \/ ConversionTaskSource
  \/ ConversionTaskConvert

\* ================================= process_chunk_results, result by result
ConversionStatuses == {"SUCCESS", "PARTIAL_SUCCESS", "FAILURE"}

\* TaskTarget: InBodyTarget, or one of the targets that write files
TargetKinds == {"inbody", "zip"}

\* a ConversionResult: its status and its errors (a result that is no SUCCESS
\* carries the error of the pipeline)
ConversionResult(status) ==
  [status |-> status,
   errors |-> IF status = "SUCCESS" THEN <<>>
              ELSE <<[component_type |-> "pipeline", module_name |-> "docling"]>>]

\* lines 259-263: ErrorItem(component_type="chunking", module_name=type(e).__name__)
ChunkingError(e) == [component_type |-> "chunking", module_name |-> e]

\* a loop body whose except branch counts nothing
PcrCountUncounted(status, raised) ==
  [succeeded |-> IF status = "SUCCESS" /\ ~raised THEN 1 ELSE 0,
   failed |-> IF status # "SUCCESS" THEN 1 ELSE 0]

\* lines 245-269: what one result adds to num_succeeded and num_failed
PcrCount(status, raised) ==
  [succeeded |-> IF status = "SUCCESS" /\ ~raised THEN 1 ELSE 0,
   failed |-> IF status # "SUCCESS" \/ raised THEN 1 ELSE 0]

\* lines 233-242: the options default, the counters start at 0 and a new
\* DocumentChunkerManager is made
PcrInit ==
  /\ OrchIdle /\ ChunkInit /\ ReconIdle /\ cv_frame = <<>> /\ tk_frame = <<>>
  /\ \E target \in TargetKinds : \E chunking_options \in ChunkingOptionsSet :
       \E statuses \in SeqsOf(ConversionStatuses, MaxResults) :
         pcr_frame =
           [pc |-> "loop",
            target |-> target,
            options |-> {chunking_options},
            conv_results |->
              [i \in 1..Len(statuses) |-> ConversionResult(statuses[i])],
            idx |-> 0,
            chunks |-> <<>>,
            num_succeeded |-> 0,
            num_failed |-> 0,
            convert_details |-> <<>>,
            chunk_excs |-> {},
            result |-> {}]

\* one iteration of `for conv_res in conv_results` (243-275); chunk_document
\* (162-222) calls _get_chunker under the lock, which is free again when it
\* returns or raises, and then chunker.chunk, which may raise too
ProcessChunkResultsItem ==
  /\ pcr_pc = "loop"
  /\ pcr_idx < Len(conv_results)
  /\ \E chunked \in BOOLEAN :
       LET conversion == conv_results[pcr_idx + 1]
           options == CHOOSE o \in pcr_options : TRUE
           cache_key == _generate_cache_key(options)
           tried == conversion.status = "SUCCESS"
           hit == LruIndex(cache_key) # 0
           got == IF hit THEN Engine(lru[LruIndex(cache_key)][2])
                  ELSE _get_chunker_from_cache(cache_key)
           raised == tried /\ (got.kind # "engine" \/ ~chunked)
           e == IF got.kind # "engine" THEN got.exc ELSE "Exception"
           count == PcrCount(conversion.status, raised)
       IN
       /\ attempts' = IF tried /\ ~hit
                      THEN [attempts EXCEPT ![cache_key] = @ + 1] ELSE attempts
       /\ ctor_calls' = IF tried /\ ~hit /\ got.kind = "engine"
                        THEN [ctor_calls EXCEPT ![cache_key] = @ + 1]
                        ELSE ctor_calls
       /\ lru' = IF tried /\ ~hit /\ got.kind = "engine"
                 THEN Append(lru, <<cache_key, got.engine>>) ELSE lru
       /\ pcr_frame' = [pcr_frame EXCEPT
                    !.idx = @ + 1,
                    !.chunks = IF tried /\ ~raised THEN Append(@, pcr_idx + 1)
                               ELSE @,
                    !.chunk_excs = IF raised THEN @ \cup {pcr_idx + 1} ELSE @,
                    !.num_succeeded = @ + count.succeeded,
                    !.num_failed = @ + count.failed,
                    !.convert_details =
                      Append(@,
                        [status |-> conversion.status,
                         errors |-> IF raised
                                    THEN Append(conversion.errors,
                                                ChunkingError(e))
                                    ELSE conversion.errors])]
  /\ UNCHANGED <<orchVars, reconVars, cv_frame, tk_frame, chunking_deps,
                 cache_size, cache_lock, thr, calls_made, dropped, cleared,
                 requests>>

\* lines 277-301: the response for an InBodyTarget, NotImplementedError for
\* every other target
ProcessChunkResultsFinish ==
  /\ pcr_pc = "loop"
  /\ pcr_idx = Len(conv_results)
  /\ IF pcr_target = "inbody"
     THEN pcr_frame' = [pcr_frame EXCEPT
                    !.result =
                      {[convert_details |-> convert_details,
                        chunks |-> chunks,
                        num_succeeded |-> num_succeeded,
                        num_failed |-> num_failed,
                        num_converted |-> num_succeeded + num_failed]},
                    !.pc = "returned"]
     ELSE pcr_frame' = [pcr_frame EXCEPT !.pc = "raised"]
  /\ UNCHANGED <<orchVars, chunkVars, reconVars, cv_frame, tk_frame>>

ChunkResultsNext ==
  \/ ProcessChunkResultsItem
  \/ ProcessChunkResultsFinish

\* ------------------------------------------------------------------- Next
Next ==
  \/ LocalProcessQueue
  \/ \E c \in Callers : LocalEnqueueInit(c)
  \/ \E c \in Callers : LocalEnqueueSubmit(c)
  \/ \E c \in Callers : LocalEnqueueReturn(c)
  \/ \E c \in Callers : RQEnqueueInit(c)
  \/ \E c \in Callers : RQEnqueueSubmit(c)
  \/ \E c \in Callers : RQEnqueueReturn(c)
  \/ \E w \in Loops : LocalWorkerGet(w)
  \/ \E w \in Loops : LocalWorkerFinish(w)
  \/ \E w \in Workers : RQWorkerPerformJob(w)
  \/ \E w \in Workers : RQConversionStore(w)
  \/ \E w \in Workers : RQConversionReturn(w)
  \/ \E w \in Workers : RQConversionRaise(w)
  \/ \E t \in TaskIds : RQRequeue(t)
  \/ \E t \in TaskIds : RQGetQueuePosition(t)
  \/ \E t \in TaskIds : LocalGetQueuePosition(t)
  \/ \E t \in TaskIds : TaskStatusCall(t)
  \/ RQCheckConnection

\* the orchestrators, without and with the observation histories
Init ==
  /\ OrchInit /\ RedisIdle /\ observing = "off" /\ max_enqueues = MaxTasks
  /\ ChunkIdle /\ ReconIdle /\ JobIdle
ObsInit ==
  /\ OrchInit /\ RedisIdle /\ observing = "status" /\ max_enqueues = MaxTasks
  /\ ChunkIdle /\ ReconIdle /\ JobIdle

\* a run that keeps the local worker pool busy: more enqueue calls than workers
PoolInit ==
  /\ OrchInit /\ RedisIdle /\ backend = "local" /\ observing = "off"
  /\ max_enqueues = MaxPoolTasks /\ ChunkIdle /\ ReconIdle /\ JobIdle

PoolNext ==
  \/ LocalProcessQueue
  \/ \E c \in Callers : LocalEnqueueInit(c)
  \/ \E c \in Callers : LocalEnqueueSubmit(c)
  \/ \E c \in Callers : LocalEnqueueReturn(c)
  \/ \E w \in Loops : LocalWorkerGet(w)
  \/ \E w \in Loops : LocalWorkerFinish(w)
  \/ \E t \in TaskIds : LocalGetQueuePosition(t)

\* RQOrchestrator polling a Redis that holds jobs in any native state: any
\* subset of the ids is registered, any subset has a job, queued jobs are in
\* the queue, finished jobs have stored their result
PollIds == 1..MaxPollJobs

PollJob(t, st) ==
  [status |-> st,
   return_value |-> IF st = "finished" THEN {result_key(t)} ELSE {}]

PollInit ==
  /\ backend = "rq" /\ observing = "position" /\ max_enqueues = 0
  /\ api_only \in BOOLEAN
  /\ redis_up \in BOOLEAN
  /\ workers_attached \in 0..num_workers
  /\ conn_ret = "none"
  /\ \E R \in SUBSET PollIds : tasks = [t \in R |-> NewTask]
  /\ \E J \in SUBSET PollIds : \E st \in [J -> JobStatus] :
       /\ jobs = [t \in J |-> PollJob(t, st[t])]
       /\ task_queue = SelectSeq([i \in PollIds |-> i],
                                LAMBDA t : t \in J /\ st[t] = "queued")
       /\ store = {StoreEntry(t) : t \in {j \in J : st[j] = "finished"}}
  /\ queue_list = <<>>
  /\ requeues = 0
  /\ caller = [c \in Callers |-> [pc |-> "idle", task_id |-> 0]]
  /\ worker = [w \in Loops |-> [pc |-> "idle", task_id |-> 0]]
  /\ worker_loops = 0
  /\ pos_ret = NoCall
  /\ issued = <<>>
  /\ putLog = <<>>
  /\ getLog = <<>>
  /\ returned = {}
  /\ preds = <<>>
  /\ seenStarted = {}
  /\ reported = {}
  /\ ChunkIdle /\ ReconIdle /\ JobIdle

PollNext ==
  \/ \E t \in TaskIds : RQGetQueuePosition(t)
  \/ RQCheckConnection

ChunkerInit == OrchIdle /\ ChunkInit /\ ReconIdle /\ JobIdle
ReconcileInit == OrchIdle /\ ChunkIdle /\ ReconInit /\ JobIdle

Spec == Init /\ [][Next]_vars
ObsSpec == ObsInit /\ [][Next]_vars
\* the durable backend alone, with a Redis that answers or one that does not
RQInit ==
  /\ OrchInit /\ backend = "rq" /\ observing = "off" /\ max_enqueues = MaxTasks
  /\ api_only = FALSE
  /\ redis_up \in BOOLEAN
  /\ workers_attached = num_workers
  /\ conn_ret = "none"
  /\ ChunkIdle /\ ReconIdle /\ JobIdle

RQNext ==
  \/ \E c \in Callers : RQEnqueueInit(c)
  \/ \E c \in Callers : RQEnqueueSubmit(c)
  \/ \E c \in Callers : RQEnqueueRaise(c)
  \/ \E c \in Callers : RQEnqueueReturn(c)
  \/ \E w \in Workers : RQWorkerPerformJob(w)
  \/ \E w \in Workers : RQConversionStore(w)
  \/ \E w \in Workers : RQConversionReturn(w)
  \/ \E w \in Workers : RQConversionRaise(w)
  \/ \E t \in TaskIds : RQRequeue(t)
  \/ \E t \in TaskIds : RQGetQueuePosition(t)
  \/ \E t \in TaskIds : TaskStatusCall(t)
  \/ RQCheckConnection

RQSpec == RQInit /\ [][RQNext]_vars
PoolSpec == PoolInit /\ [][PoolNext]_vars
PollSpec == PollInit /\ [][PollNext]_vars
ChunkSpec == ChunkerInit /\ [][ChunkNext]_vars
RequestSpec == ChunkerInit /\ [][RequestNext]_vars
ReconSpec == ReconcileInit /\ [][ReconNext]_vars
ConvertSpec == ConvertInit /\ [][ConvertNext]_vars
\* a worker that runs conversion_task on one task
DispatchSpec == TaskInit /\ [][DispatchNext]_vars
\* a worker that runs process_chunk_results on the results of one task
ChunkResultsSpec == PcrInit /\ [][ChunkResultsNext]_vars

\* Fairness: every worker loop (asyncio task, rq worker process) keeps running,
\* and the caller keeps polling task_status (status is polled, never pushed)
WorkerFairness ==
  /\ WF_vars(LocalProcessQueue)
  /\ \A w \in Loops :
       /\ WF_vars(LocalWorkerGet(w))
       /\ WF_vars(LocalWorkerFinish(w))
  /\ \A w \in Workers :
       /\ WF_vars(RQWorkerPerformJob(w))
       /\ WF_vars(RQConversionStore(w))
       /\ WF_vars(RQConversionReturn(w))
       /\ WF_vars(RQConversionRaise(w))

PollFairness == \A t \in TaskIds : WF_vars(TaskStatusCall(t))

LiveSpec == Init /\ [][Next]_vars /\ WorkerFairness /\ PollFairness

\* ================================================================== claims

\* C1: for any interleaving of concurrent enqueue calls on one orchestrator,
\* every call gets a task id no other call got, and once a call has returned
\* its task is in the registry and its id was submitted to the work queue
\* exactly once.
C1_EnqueueUniqueRegisteredOnce ==
  /\ \A i, j \in 1..Len(issued) : i # j => issued[i] # issued[j]
  /\ \A t \in TaskIds : Occurrences(putLog, t) <= 1
  /\ \A t \in returned : t \in DOMAIN tasks /\ Occurrences(putLog, t) = 1

\* two calls overlapped: the call that got its id second submitted first
C1_Witness ==
  /\ Cardinality(returned) >= 2
  /\ Len(issued) >= 2 /\ Len(putLog) >= 2
  /\ putLog[1] = issued[2] /\ putLog[2] = issued[1]

\* C2: once a task's registry status is SUCCESS or FAILURE, no later step
\* (status refresh, change of the job's native state, re-queueing) changes it.
C2_TerminalStatusNeverChanges ==
  [][\A t \in DOMAIN tasks :
       tasks[t].task_status \in Terminal =>
         tasks'[t].task_status = tasks[t].task_status]_vars

\* C3: a task whose registry status has been STARTED is never PENDING again.
C3_StartedNeverBackToPending ==
  \A t \in seenStarted : tasks[t].task_status # PENDING

\* C8: after task_status has reported SUCCESS or FAILURE for a task, task_result
\* for that task is not None.
C8_TerminalReportHasResult ==
  \A t \in reported : task_result(t) # {}

C10_FifoAdmission ==
  /\ Len(getLog) <= Len(putLog)
  /\ \A i \in 1..Len(getLog) : i <= Len(putLog) => getLog[i] = putLog[i]
  /\ \A b \in DOMAIN preds : \A a \in preds[b] :
       b \in Range(getLog) =>
         a \in Range(getLog) /\ IndexOf(getLog, a) < IndexOf(getLog, b)

\* A returned before B was called, and both have been dequeued
C10_Witness ==
  /\ backend = "local"
  /\ Len(getLog) >= 2
  /\ getLog[2] \in DOMAIN preds
  /\ getLog[1] \in preds[getLog[2]]

\* ------------------------------------------------------ chunker cache claims
\* C4: when the chunking dependencies are installed and threads call
\* _get_chunker with options of the same cache key, the constructor has run
\* exactly once for that key (while the key was never evicted or cleared) and
\* every caller that has returned holds that one engine.
C4_ConstructorRunsOnce ==
  \A th \in Threads :
    (chunking_deps /\ thr[th].pc = "done" /\ thr[th].cache_key \notin dropped) =>
      /\ ctor_calls[thr[th].cache_key] = 1
      /\ thr[th].result.kind = "engine"
      /\ \A o \in Threads :
           (thr[o].pc = "done" /\ thr[o].cache_key = thr[th].cache_key) =>
             thr[o].result = thr[th].result

\* the fields key_data holds (chunking.py 136-141)
KeyFields(o) ==
  <<o.tokenizer, o.max_tokens, o.merge_peers, o.use_markdown_tables>>

\* C20 as stated: two configurations that differ in any field have different
\* cache keys.
C20_DifferentOptionsDifferentKeys ==
  \A a, b \in Threads :
    \A A \in thr[a].options : \A B \in thr[b].options :
      A # B => thr[a].cache_key # thr[b].cache_key

\* C20 amended: two configurations that differ in tokenizer, max_tokens,
\* merge_peers or use_markdown_tables have different cache keys.
C20_DifferentKeyFieldsDifferentKeys ==
  \A a, b \in Threads :
    \A A \in thr[a].options : \A B \in thr[b].options :
      KeyFields(A) # KeyFields(B) => thr[a].cache_key # thr[b].cache_key

\* two threads hold keys of configurations that differ in max_tokens only
C20_Witness ==
  \E a, b \in Threads :
    \E A \in thr[a].options : \E B \in thr[b].options :
      /\ A.max_tokens # B.max_tokens
      /\ A.tokenizer = B.tokenizer
      /\ A.merge_peers = B.merge_peers
      /\ A.use_markdown_tables = B.use_markdown_tables
      /\ thr[a].cache_key # thr[b].cache_key

\* the length of a key made of hexdigests: its fields and the "_" between them
KeyLength(cache_key) ==
  Sha1HexDigits * Len(cache_key) + (Len(cache_key) - 1)

Lookup(th) == thr[th].pc = "locked" /\ thr'[th].pc = "leaving"

C24_FailureNotCached ==
  /\ [][\A th \in Threads :
          (Lookup(th) /\ thr'[th].result.kind = "raise") =>
            /\ lru' = lru
            /\ attempts'[thr[th].cache_key] = attempts[thr[th].cache_key] + 1
            /\ thr'[th].result = _get_chunker_from_cache(thr[th].cache_key)]_vars
  /\ [][\A th \in Threads :
          (thr[th].pc = "leaving" /\ thr'[th].pc = "done") =>
            thr'[th].result = thr[th].result]_vars
  /\ [](\A th \in Threads : thr[th].pc = "done" => cache_lock # th)
  /\ [](\A i \in 1..Len(lru) : lru[i][2] # <<>>)

\* a call has ended with the error of a construction that failed for the
\* second time for its key, and the lock is free
C24_Witness ==
  \E th \in Threads :
    /\ thr[th].pc = "done"
    /\ thr[th].result.kind = "raise"
    /\ attempts[thr[th].cache_key] = 2
    /\ cache_lock = 0
    /\ lru = <<>>

\* C25: while the construction for one key is in progress (a thread is in
\* the locked part of _get_chunker), a call for a different key is not made to
\* wait: it can enter its own get-or-create.
C25_OtherKeysDoNotWait ==
  \A a, b \in Threads :
    (/\ thr[a].pc = "locked"
     /\ thr[b].pc = "keyed"
     /\ thr[b].cache_key # thr[a].cache_key) => ENABLED GetChunkerAcquire(b)

\* C26: with the chunking dependencies installed, two successive
\* process_chunk_results calls with identical chunking options get one and the
\* same engine: the second call reuses the engine the first one constructed.
C26_SuccessiveRequestsShareEngine ==
  \A i \in 1..(Len(requests) - 1) :
    (chunking_deps /\ requests[i].options = requests[i + 1].options) =>
      /\ requests[i].result.kind = "engine"
      /\ requests[i + 1].result = requests[i].result

\* ------------------------------------------------------ reconciliation claims
\* the key without its leading prefix and without its trailing extension
CanonicalDocumentId(key, prefix, extension) ==
  LET a == IF Len(key) > 0 /\ key[1] = prefix THEN Tail(key) ELSE key
  IN IF Len(a) > 0 /\ a[Len(a)] = extension THEN SubSeq(a, 1, Len(a) - 1) ELSE a

TargetIds ==
  {CanonicalDocumentId(t, ConvertedPrefix, Json) : t \in target_listing}

PendingWork ==
  SelectSeq(source_objects_list,
            LAMBDA key : CanonicalDocumentId(key, SourcePrefix, Pdf) \notin TargetIds)

\* C5: check_target_has_source_converted returns exactly the source keys
\* whose canonical id (source prefix and input extension stripped) is not
\* among the canonical ids of the keys listed under the converted prefix.
C5_ReturnsExactlyUnconverted ==
  rc_pc \in {"filtered", "batched"} => filtered_source_keys = PendingWork

CeilDiv(n, k) == (n + k - 1) \div k

\* C6: for N keys and a batch size K >= 1, generate_batch_keys returns
\* ceil(N/K) batches, each non-empty and of at most K keys, and each but
\* possibly the last of exactly K keys.
C6_BatchCountAndSizes ==
  (rc_pc = "batched" /\ batch_size >= 1) =>
    /\ Len(batch_keys) = CeilDiv(Len(presign_filtered_source_keys), batch_size)
    /\ \A i \in 1..Len(batch_keys) :
         /\ Len(batch_keys[i]) >= 1
         /\ Len(batch_keys[i]) <= batch_size
         /\ i < Len(batch_keys) => Len(batch_keys[i]) = batch_size

\* N = 3, K = 2: two batches, the last one short
C6_Witness ==
  /\ rc_pc = "batched"
  /\ batch_size = 2
  /\ Len(presign_filtered_source_keys) = 3
  /\ Len(batch_keys) = 2
  /\ Len(batch_keys[2]) = 1

RECURSIVE Concatenate(_)
Concatenate(batches) ==
  IF batches = <<>> THEN <<>>
  ELSE Head(batches) \o Concatenate(Tail(batches))

\* C7: the batches of generate_batch_keys, concatenated in order, are the
\* input list, for every input list and every batch size.
C7_ConcatenationIsInput ==
  rc_pc = "batched" => Concatenate(batch_keys) = presign_filtered_source_keys

\* three keys in three batches and in the order of the listing
C7_Witness ==
  /\ rc_pc = "batched"
  /\ Len(presign_filtered_source_keys) = 3
  /\ Len(batch_keys) = 3
  /\ \A i \in 1..3 : batch_keys[i] = <<presign_filtered_source_keys[i]>>

\* ------------------------------------------------------- worker pool claims
Executing == {w \in Loops : worker[w].pc = "running"}

\* C11: process_queue with num_workers = W creates exactly W worker loops, and
\* at most W tasks are being executed at the same time, however many tasks
\* have been enqueued.
C11_AtMostWRunning ==
  /\ worker_loops \in {0, num_workers}
  /\ Cardinality(Executing) <= num_workers
  /\ Cardinality({t \in DOMAIN tasks : tasks[t].task_status = STARTED})
       <= num_workers

\* W tasks are being executed and one more waits in the queue
C11_Witness ==
  /\ worker_loops = num_workers
  /\ Cardinality(Executing) = num_workers
  /\ task_queue # <<>>

\* ---------------------------------------------------- queue position claims
\* what get_queue_position(t) returns when called in this state
QueuePositionNow(t) ==
  IF backend = "local" THEN LocalQueuePosition(t)
  ELSE RQQueuePosition(t, "none").value

\* the task is neither finished nor failed: by its registry status in the
\* local backend, by the state of its job in the durable one
Unfinished(t) ==
  /\ t \in DOMAIN tasks
  /\ IF backend = "local" THEN tasks[t].task_status \in {PENDING, STARTED}
     ELSE t \in DOMAIN jobs /\ jobs[t].status \in {"queued", "started"}

\* C12: get_queue_position returns None for every task that has reached
\* SUCCESS or FAILURE and for every task id that was never enqueued.
C12_NoneWhenTerminalOrUnknown ==
  \A t \in TaskIds :
    (t \notin DOMAIN tasks \/ tasks[t].task_status \in Terminal) =>
      QueuePositionNow(t) = {}

SubmittedBefore(t) ==
  {u \in Range(putLog) : IndexOf(putLog, u) < IndexOf(putLog, t)}

\* C13: for a task that is pending or running get_queue_position returns an
\* integer k >= 1 with k - 1 the number of tasks submitted before it that have
\* not completed; 0 is never returned.
C13_PositionIsOneBased ==
  \A t \in Range(putLog) :
    Unfinished(t) =>
      /\ QueuePositionNow(t) # {}
      /\ \A k \in QueuePositionNow(t) :
           /\ k >= 1
           /\ k - 1 = Cardinality({u \in SubmittedBefore(t) : Unfinished(u)})

Waiting(t) ==
  IF backend = "local" THEN t \in Range(queue_list) ELSE t \in Range(task_queue)

\* C14: while a task stays pending, the value get_queue_position returns for
\* it never increases from one state to the next, whatever enqueue calls and
\* completions happen in between.
C14_PositionNeverIncreases ==
  [][\A t \in TaskIds :
       (Waiting(t) /\ Waiting(t)') =>
         \A a \in QueuePositionNow(t) : \A b \in QueuePositionNow(t)' : b <= a]_vars

\* the task submitted second is now first in line
C14_Witness ==
  /\ backend = "local"
  /\ Len(putLog) >= 2
  /\ LocalQueuePosition(putLog[2]) = {1}

\* ----------------------------------------------------- status refresh claims
Polled(t) ==
  /\ pos_ret.task_id = t
  /\ pos_ret.fault = "none"
  /\ t \in DOMAIN jobs
  /\ t \in DOMAIN tasks

\* C15: the status refresh maps queued, scheduled, deferred and started only to
\* PENDING or STARTED, finished to SUCCESS, and stopped and failed to FAILURE.
C15_StatusMapping ==
  \A t \in TaskIds :
    Polled(t) =>
      /\ jobs[t].status \in {"queued", "scheduled", "deferred", "started"} =>
           tasks[t].task_status \in {PENDING, STARTED}
      /\ jobs[t].status = "finished" => tasks[t].task_status = SUCCESS
      /\ jobs[t].status \in {"stopped", "failed"} =>
           tasks[t].task_status = FAILURE

\* C16: a task of RQOrchestrator whose registry status is SUCCESS has the
\* return value of its finished job as its results, also when reading the
\* return value fails.
C16_SuccessHasResults ==
  \A t \in DOMAIN tasks :
    (backend = "rq" /\ tasks[t].task_status = SUCCESS) =>
      /\ tasks[t].results # {}
      /\ tasks[t].results = jobs[t].return_value

\* C17: when conversion_task has completed for task t, the result is in the
\* store under results_prefix:t with expiry results_ttl, and the job's return
\* value is that key.
C17_StoredBeforeReturn ==
  \A t \in DOMAIN jobs :
    jobs[t].status = "finished" =>
      /\ <<result_key(t), results_ttl>> \in store
      /\ jobs[t].return_value = {result_key(t)}

\* a job has finished and the orchestrator has read its return value
C17_Witness ==
  \E t \in DOMAIN tasks \cap DOMAIN jobs :
    /\ backend = "rq"
    /\ jobs[t].status = "finished"
    /\ tasks[t].results = {result_key(t)}

\* -------------------------------------------------- check_connection claims
\* C18 as stated: check_connection raises whenever Redis does not answer or no
\* live worker is attached, and returns only when Redis answers and a worker
\* is attached.
C18_RaisesUnlessStoreAndWorker ==
  conn_ret # "none" =>
    (conn_ret = "return" <=> (redis_up /\ workers_attached >= 1))

\* C18 amended: check_connection raises whenever Redis does not answer, or the
\* orchestrator is not api_only and no live worker is attached; otherwise it
\* returns.
C18_RaisesUnlessStoreAndWorkerOrApiOnly ==
  conn_ret # "none" =>
    (conn_ret = "return" <=>
       (redis_up /\ (api_only \/ workers_attached >= 1)))

\* Redis answers, no worker is attached, and the call has raised
C18_Witness ==
  /\ redis_up
  /\ ~api_only
  /\ workers_attached = 0
  /\ conn_ret = "RuntimeError: No workers connected to Redis"

\* C19: get_queue_position of RQOrchestrator never raises; when the fetch of
\* the job, of its status, of its position or of its return value fails, or
\* the id has no job or no registry entry, it returns None.
C19_NeverRaises ==
  pos_ret.task_id # 0 =>
    /\ pos_ret.out.kind = "return"
    /\ ( \/ pos_ret.fault \in {"fetch", "get_status", "get_position"}
         \/ pos_ret.task_id \notin DOMAIN jobs
         \/ pos_ret.task_id \notin DOMAIN tasks
         \/ ( /\ pos_ret.fault = "return_value"
              /\ jobs[pos_ret.task_id].status = "finished" ) )
       => pos_ret.out.value = {}

\* reading the return value of a finished job failed and the call returned None
C19_Witness ==
  /\ pos_ret.fault = "return_value"
  /\ pos_ret.task_id \in DOMAIN jobs
  /\ pos_ret.task_id \in DOMAIN tasks
  /\ jobs[pos_ret.task_id].status = "finished"
  /\ pos_ret.out = PosReturn({})

\* ------------------------------------------- canonical ids and empty runs
\* C27: strip_prefix_postfix maps every key prefix + id + extension to id: it
\* takes off the leading prefix and the trailing extension only, whatever id
\* holds.
C27_StripsOnlyLeadingAndTrailing ==
  (rc_pc \in {"filtered", "batched"} /\ target_listing # {}) =>
    target_short_key_list =
      {CanonicalDocumentId(key, ConvertedPrefix, Json) : key \in target_listing}

\* C28: strip_prefix_postfix returns as many ids as it was given distinct
\* keys of the prefix and extension.
C28_DistinctKeysDistinctIds ==
  (rc_pc \in {"filtered", "batched"} /\ target_listing # {}) =>
    Cardinality(target_short_key_list) = Cardinality(target_listing)

\* C29: when the source listing is empty the pending list is empty, there is
\* no batch and no batch index, so no conversion is started.
C29_EmptySourceNoWork ==
  (rc_pc = "batched" /\ source_objects_list = <<>>) =>
    /\ filtered_source_keys = <<>>
    /\ batch_keys = <<>>
    /\ batch_indices = <<>>

\* a run over an empty source listing and a target that holds documents
C29_Witness ==
  /\ rc_pc = "batched"
  /\ source_objects_list = <<>>
  /\ target_listing # {}
  /\ batch_size >= 1
  /\ batch_indices = <<>>

\* C30: no run with a batch size K <= 0 returns batches.
C30_NonPositiveBatchSizeRejected ==
  batch_size <= 0 => rc_pc # "batched"

\* ============================ the local queue and the registry
\* LocalOrchestrator.queue_size (49-50): task_queue.qsize()
queue_size == Len(task_queue)

RECURSIVE IsSubsequence(_, _)
\* s is t with some elements left out
IsSubsequence(s, t) ==
  IF s = <<>> THEN TRUE
  ELSE IF t = <<>> THEN FALSE
  ELSE IF Head(s) = Head(t) THEN IsSubsequence(Tail(s), Tail(t))
  ELSE IsSubsequence(s, Tail(t))

\* C39: in every reachable state of LocalOrchestrator, under any interleaving
\* of enqueue calls and worker dequeues, every task id held in task_queue or
\* queue_list belongs to a task already in the registry, and so does every id
\* a worker has dequeued.
C39_QueuedIdsAreRegistered ==
  backend = "local" =>
    /\ Range(task_queue) \subseteq DOMAIN tasks
    /\ Range(queue_list) \subseteq DOMAIN tasks
    /\ Range(getLog) \subseteq DOMAIN tasks
    /\ \A w \in Loops :
         worker[w].pc = "running" => worker[w].task_id \in DOMAIN tasks

\* a worker has dequeued an id while another id waits in the queue and a
\* third enqueue call is between its registration and its put
C39_Witness ==
  /\ backend = "local"
  /\ getLog # <<>>
  /\ task_queue # <<>>
  /\ \E c \in Callers : caller[c].pc = "tracked"

\* C40: in every reachable state of LocalOrchestrator the ids waiting in
\* task_queue appear in queue_list in the same relative order, each id occurs
\* at most once in queue_list, and queue_size() is at most the length of
\* queue_list, under any interleaving of concurrent enqueue calls.
C40_QueueListMirrorsQueue ==
  backend = "local" =>
    /\ IsSubsequence(task_queue, queue_list)
    /\ NoRepeat(queue_list)
    /\ queue_size <= Len(queue_list)

\* two enqueue calls have interleaved: the id issued second was put first,
\* and both wait
C40_Witness ==
  /\ backend = "local"
  /\ queue_size >= 2
  /\ task_queue[1] > task_queue[2]
  /\ Len(queue_list) >= 2

\* ------------------------------------------- the engine and its configuration
\* C37: for every valid chunking configuration, with the chunking dependencies
\* installed, _get_chunker succeeds and returns an engine built with exactly
\* that configuration's tokenizer, max_tokens, merge_peers and
\* use_markdown_tables: the values the cached constructor recovers from the
\* cache key equal the values of the options that produced the key.
C37_EngineBuiltFromOptions ==
  \A th \in Threads :
    (chunking_deps /\ thr[th].pc = "done") =>
      /\ thr[th].result.kind = "engine"
      /\ \A o \in thr[th].options :
           KeyFields(thr[th].result.engine[3]) = KeyFields(o)

\* ------------------------------------------------- an enqueue that fails
\* C38: if submitting the job to the external queue fails inside
\* RQOrchestrator.enqueue, the call ends with the error and the registry holds
\* no entry for the new task id afterwards: every id whose enqueue call has
\* ended without the job being submitted is absent from the registry.
C38_FailedEnqueueLeavesNoTask ==
  backend = "rq" =>
    \A id \in Range(issued) :
      (/\ id \notin Range(putLog)
       /\ id \notin returned
       /\ \A c \in Callers : caller[c].task_id # id) => id \notin DOMAIN tasks

\* ------------------------------------------------------ pre-signed batches
\* C33: in pre-signed mode the batches hold exactly one pre-signed URL per
\* pending key in pending-key order: the j-th element over all batches is the
\* URL string of the j-th pending key, never a missing value and never the URL
\* of another key, including when URL generation fails for some key.
C33_OneUrlPerPendingKey ==
  rc_pc = "batched" =>
    Concatenate(batch_keys) =
      [j \in 1..Len(filtered_source_keys) |->
         {PresignedUrl(filtered_source_keys[j])}]

\* ------------------------------------------------------ the conversion run
\* C31: in convert_documents a ConversionError raised while converting one key
\* does not stop the remaining keys from being processed, and what is recorded
\* for the failing key is a failure of that key, never the result or the
\* uploads of a different document.
C31_ConversionErrorIsolated ==
  /\ cv_pc # "raised"
  /\ \A i \in 1..Len(cv_log) :
       cv_log[i].event = "ConversionError" =>
         /\ cv_log[i].uploaded = {}
         /\ \A y \in cv_log[i].yielded :
              y.of = cv_log[i].key /\ y.outcome = "FAILURE"

\* C35: convert_documents yields exactly one outcome (SUCCESS, PARTIAL_SUCCESS
\* or FAILURE) for every input key, in input order: no key is passed over
\* without an outcome, keys without a pre-signed URL or with an extension that
\* is not allowed included.
C35_OneOutcomePerKey ==
  /\ cv_pc # "raised"
  /\ cv_pc \in {"loop", "done"} =>
       /\ Len(yielded) = cv_idx
       /\ \A i \in 1..Len(yielded) : yielded[i].of = object_keys[i]

\* C36: a source key that a reconciliation run lists as pending and that
\* convert_documents then converts successfully, with json among the output
\* formats, is not listed as pending by the next reconciliation run against the
\* same source and target, wherever the key lies under the source prefix and
\* whatever its extension.
C36_ConvertedKeyNotPendingAgain ==
  \A i \in 1..Len(cv_log) :
    (/\ json_wanted
     /\ cv_log[i].event = "SUCCESS"
     /\ cv_log[i].key \in Range(filtered_source_keys)) =>
      cv_log[i].key \notin
        Range(check_target_has_source_converted(target_listing,
                                                source_objects_list))

\* ----------------------------------------------------- the source dispatch
\* C34: conversion_task hands the converter exactly one conversion input per
\* entry of task.sources, in the same order: every variant of the TaskSource
\* union is dispatched and no source is dropped without an input or an error.
C34_OneInputPerSource ==
  tk_pc = "called" =>
    /\ Len(convert_sources) = Len(task_sources)
    /\ \A i \in 1..Len(convert_sources) :
         convert_sources[i].of = task_sources[i].name

\* ------------------------------------------------- chunking the results
\* the ChunkedDocumentConvertDetail of input i holds a chunking error
HasChunkingError(i) ==
  \E k \in 1..Len(convert_details[i].errors) :
    convert_details[i].errors[k].component_type = "chunking"

====
